---- MODULE Spec2Model ----
(***************************************************************************)
(* Connection lifecycle of the streaming transport endpoints               *)
(*   WebSocketClient  (botframework-streaming-extensions/src/WebSocket)    *)
(*   WebSocketServer  (botframework-streaming-extensions/src/WebSocket)    *)
(* One endpoint is modelled; Init chooses whether it is a client or a      *)
(* server.  PayloadSender, PayloadReceiver, RequestManager and             *)
(* ProtocolAdapter are collaborators whose code is not part of the         *)
(* sources at hand; they are modelled from the design document.            *)
(* A second specification, PromptSpec, covers the OAuthPrompt dialog        *)
(*   OAuthPrompt  (botbuilder-dialogs/src/prompts/oauthPrompt.ts)          *)
(***************************************************************************)
EXTENDS Naturals, Sequences, FiniteSets

\* ---------------------------------------------------------------- bounds
MaxConnects == 2      \* connectAsync calls observed on one client
MaxStarts == 2        \* startAsync calls observed on one server
MaxRequests == 2      \* requests handed to sendAsync
MaxTicks == 3         \* advances of the wall clock during one prompt

\* ------------------------------------------------------------- constants
NodeConnectError == "Unable to connect client to Node transport."
ReconnectError == "Unable to re-connect client to Node transport."
SocketError == "socket error"
TypeError == "TypeError"

RequestIds == 1..MaxRequests
Final == {"response", "cancelled", "disconnected"}

VARIABLES
  kind,            \* "client" | "server": which class was constructed
  autoReconnect,   \* WebSocketClient._autoReconnect
  hasWebSocket,    \* typeof WebSocket !== 'undefined' (browser runtime)
  sender,          \* transport the PayloadSender is connected to, 0 = none
  receiver,        \* transport the PayloadReceiver is connected to, 0 = none
  calls,           \* connectAsync calls: origin, promise state (pending while the
                   \* handshake is awaited), rejection
  starts,          \* startAsync promises: state, live, overlapped
  closedSignal,    \* WebSocketServer._closedSignal: index into starts, 0 = unset
  outcome,         \* per request: what the sendAsync caller has observed
  pending,         \* RequestManager: ids with a pending entry
  resolutions,     \* per request: how often its completion was resolved
  errors,          \* errors nobody handles (unhandled rejections, throws)
  lastEvent,       \* latest disconnect event: cause, handler runs, reconnect calls
  stopped,         \* disconnect() has returned and the user has not called
                   \* connectAsync / startAsync since: "clean", or "racing" when a
                   \* connectAsync call was awaiting its handshake; else "no"
  settings,        \* OAuthPrompt.settings.timeout: is it a number, and which
  now,             \* new Date().getTime(), in milliseconds
  ticks,           \* how often the clock has advanced
  dialog,          \* the prompt's dialog instance: "idle" | "active" | "ended"
  state,           \* dc.instance.state: expires, retryPrompt
  result,          \* what dc.end was given: "none" | "undefined" | "token"
  turn             \* the latest dialogBegin / dialogContinue call: its inputs,
                   \* the activities it sent, whether it ended the dialog

vars == <<kind, autoReconnect, hasWebSocket, sender, receiver, calls, starts,
          closedSignal, outcome, pending, resolutions, errors,
          lastEvent, stopped, settings, now, ticks, dialog, state, result, turn>>

promptVars == <<settings, now, ticks, dialog, state, result, turn>>

endpointVars == <<sender, receiver, calls, starts, closedSignal, outcome, pending,
                  resolutions, errors, lastEvent, stopped>>

config == <<kind, autoReconnect, hasWebSocket>>

\* The mutable part of an endpoint, threaded through the synchronous calls
\* that make up one handler.
Cur ==
  [sender |-> sender, receiver |-> receiver, calls |-> calls, starts |-> starts,
   outcome |-> outcome, pending |-> pending, resolutions |-> resolutions,
   errors |-> errors, handlerCalls |-> 0, reconnects |-> 0, thrown |-> FALSE]

Install(s) ==
  /\ sender' = s.sender
  /\ receiver' = s.receiver
  /\ calls' = s.calls
  /\ starts' = s.starts
  /\ outcome' = s.outcome
  /\ pending' = s.pending
  /\ resolutions' = s.resolutions
  /\ errors' = s.errors

InFlight(cs) == {i \in DOMAIN cs : cs[i].state = "pending"}

\* ------------------------------------------------- RequestManager (design)
\* register: one pending entry per id.
Register(s, r) ==
  [s EXCEPT !.pending = @ \cup {r}, !.outcome[r] = "pending"]

\* sendRequest: register the id, hand the frames to the sender, await the
\* completion.  A sender that is not connected refuses the frames: the
\* request fails at once and nothing stays registered.
SendRequestAsync(s, r) ==
  IF s.sender = 0 THEN [s EXCEPT !.outcome[r] = "refused"] ELSE Register(s, r)

\* resolve / cancel / disconnection failure of one entry: the completion is
\* resolved and the entry removed; an unknown id is a no-op.
Complete(s, r, how) ==
  IF r \in s.pending
    THEN [s EXCEPT !.pending = @ \ {r},
                   !.outcome[r] = how,
                   !.resolutions[r] = IF @ < 2 THEN @ + 1 ELSE @]
    ELSE s

\* A variant that resolves the completions but leaves the entries in the map.
FailAllKeepsEntries(s) ==
  [s EXCEPT !.outcome = [r \in RequestIds |->
                           IF r \in s.pending THEN "disconnected" ELSE @[r]],
            !.resolutions = [r \in RequestIds |->
                           IF r \in s.pending /\ @[r] < 2 THEN @[r] + 1 ELSE @[r]]]

\* On connection disconnect every pending entry is resolved with a
\* disconnection failure and removed.
FailAll(s) ==
  [s EXCEPT !.pending = {},
            !.outcome = [r \in RequestIds |->
                           IF r \in s.pending THEN "disconnected" ELSE @[r]],
            !.resolutions = [r \in RequestIds |->
                           IF r \in s.pending /\ @[r] < 2 THEN @[r] + 1 ELSE @[r]]]

\* ------------------------------------------------------ WebSocketClient
\* The callback slot holds the bare method (client) or an arrow function that
\* passes the server explicitly (server): the object the handler body works
\* on, given the object the slot is invoked on.
HandlerThis(k, notifier) ==
  IF k = "server" THEN "server" ELSE notifier

\* this._autoReconnect as read by the handler body: the field exists on the
\* client only, it is undefined (falsy) on any other object.
AutoReconnectOf(obj) ==
  IF obj = "client" THEN autoReconnect ELSE FALSE

\* A handler that reconnects whatever object and flag it is given.
onConnectionDisconnectedAlways(s, obj) ==
  [s EXCEPT !.reconnects = @ + 1,
            !.calls = IF Len(@) < MaxConnects
                        THEN Append(@, [origin |-> "handler", state |-> "pending",
                                        error |-> ""])
                        ELSE @]

\* onConnectionDisconnected: if (this._autoReconnect) this.connectAsync()...
onConnectionDisconnected(s, obj) ==
  IF AutoReconnectOf(obj)
    THEN [s EXCEPT !.reconnects = @ + 1,
                   !.calls = IF Len(@) < MaxConnects
                               THEN Append(@, [origin |-> "handler",
                                               state |-> "pending", error |-> ""])
                               ELSE @]
    ELSE s

\* ------------------------------------------------------ WebSocketServer
\* A handler that forgets to call the closed signal.
onConnectionDisocnnectedSilent(s) == s

\* onConnectionDisocnnected: s._closedSignal('close'); calling the unset
\* signal throws, resolving a settled promise changes nothing.
onConnectionDisocnnected(s) ==
  IF closedSignal = 0
    THEN [s EXCEPT !.errors = @ \cup {TypeError}, !.thrown = TRUE]
    ELSE [s EXCEPT !.starts[closedSignal].state =
                     IF @ = "pending" THEN "close" ELSE @]

\* ------------------------------------- PayloadSender / PayloadReceiver (design)
\* The disconnect notification of a sender or receiver: pending requests fail,
\* then the callback slot `disconnected` is invoked as a method of the
\* notifier.  Every startAsync promise has now seen a notification.
Notify(s, notifier) ==
  LET failed == FailAll(s)
      seen == [failed EXCEPT !.handlerCalls = @ + 1,
                             !.starts = [i \in DOMAIN @ |-> [@[i] EXCEPT !.live = FALSE]]]
  IN IF kind = "server"
       THEN onConnectionDisocnnected(seen)
       ELSE onConnectionDisconnected(seen, HandlerThis(kind, notifier))

\* disconnect(): a connected sender / receiver closes and notifies once; one
\* that is not connected does nothing.  A call is not reached when an earlier
\* statement of the same function has thrown.
SenderDisconnect(s) ==
  IF s.thrown \/ s.sender = 0 THEN s ELSE Notify([s EXCEPT !.sender = 0], "sender")

ReceiverDisconnect(s) ==
  IF s.thrown \/ s.receiver = 0 THEN s ELSE Notify([s EXCEPT !.receiver = 0], "receiver")

\* connect(transport)
Wire(s, t) == [s EXCEPT !.sender = t, !.receiver = t]

\* ----------------------------------------------------------- OAuthPrompt
DefaultTimeout == 54000000
CustomTimeout == 300000
FifteenMinutes == 15 * 60 * 1000

\* settings.timeout: absent (or anything that is no number), 0, or the five
\* minutes of the usage example.
Timeouts ==
  {[isNumber |-> FALSE, value |-> 0],
   [isNumber |-> TRUE, value |-> 0],
   [isNumber |-> TRUE, value |-> CustomTimeout]}

\* options.prompt is a string, an activity, or absent; retryPrompt is set or not.
PromptOptions ==
  [prompt : {"string", "activity", "undefined"}, retryPrompt : BOOLEAN]

TokenOutputs == {"undefined", "token"}
ActivityTypes == {"message", "event", "invoke"}

NoTurn ==
  [op |-> "none", type |-> "none", prompt |-> "undefined", output |-> "undefined",
   at |-> 0, sent |-> <<>>, ended |-> FALSE]

\* typeof this.settings.timeout === 'number' ? this.settings.timeout : 54000000
TimeoutOf(setting) ==
  IF setting.isNumber THEN setting.value ELSE DefaultTimeout

\* Object.assign({ expires: new Date().getTime() + timeout }, options)
BeginState(t, options) ==
  [expires |-> t + TimeoutOf(settings), retryPrompt |-> options.retryPrompt]

\* A dialogBegin that sends the sign-in card whether or not a token came back.
BeginSendsAlways(output, options) ==
  IF options.prompt = "string" THEN <<"prompt", "OAuthCard">> ELSE <<"OAuthCard">>

\* What dialogBegin sends once getUserToken has answered.
BeginSends(output, options) ==
  IF output # "undefined"
    THEN <<>>
    ELSE IF options.prompt = "string"
           THEN <<"prompt", "OAuthCard">>
           ELSE <<"OAuthCard">>

\* A timeout test that already fires at the expiry time itself.
HasTimedOutAtExpiry(type, t, expires) ==
  type = "message" /\ t >= expires

\* isMessage && (new Date().getTime() > state.expires)
HasTimedOut(type, t, expires) ==
  type = "message" /\ t > expires

\* if (output || hasTimedOut)
ContinueEnds(output, type, t, expires) ==
  output # "undefined" \/ HasTimedOut(type, t, expires)

\* else if (isMessage && state.retryPrompt): the retry prompt is sent
ContinueSends(output, type, t, st) ==
  IF ~ContinueEnds(output, type, t, st.expires) /\ type = "message" /\ st.retryPrompt
    THEN <<"retryPrompt">>
    ELSE <<>>

\* ------------------------------------------------------------------ Init
Init ==
  /\ kind \in {"client", "server"}
  /\ autoReconnect \in (IF kind = "client" THEN BOOLEAN ELSE {FALSE})
  /\ hasWebSocket \in (IF kind = "client" THEN BOOLEAN ELSE {FALSE})
  /\ sender = 0
  /\ receiver = 0
  /\ calls = <<>>
  /\ starts = <<>>
  /\ closedSignal = 0
  /\ outcome = [r \in RequestIds |-> "unsent"]
  /\ pending = {}
  /\ resolutions = [r \in RequestIds |-> 0]
  /\ errors = {}
  /\ lastEvent = [handlerCalls |-> 0, reconnects |-> 0, cause |-> "none"]
  /\ stopped = "no"
  /\ settings = [isNumber |-> FALSE, value |-> 0]
  /\ now = 0
  /\ ticks = 0
  /\ dialog = "idle"
  /\ state = [expires |-> 0, retryPrompt |-> FALSE]
  /\ result = "none"
  /\ turn = NoTurn

\* --------------------------------------------------------------- actions
\* WebSocketClient.connectAsync, up to its await of ws.connectAsync(url).
connectAsync ==
  /\ kind = "client"
  /\ Len(calls) < MaxConnects
  /\ calls' = Append(calls, [origin |-> "user", state |-> "pending", error |-> ""])
  /\ stopped' = "no"
  /\ UNCHANGED <<config, promptVars, sender, receiver, starts, closedSignal, outcome, pending,
                 resolutions, errors, lastEvent>>

\* A connectAsync that wires sender and receiver before the handshake has
\* settled, and leaves them wired when it fails.
ConnectResumeWiresFirst(i, ok) ==
  LET wired == Wire(Cur, i)
      err == IF hasWebSocket THEN SocketError ELSE NodeConnectError
  IN IF ok THEN [wired EXCEPT !.calls[i].state = "resolved"]
           ELSE [wired EXCEPT !.calls[i].state = "rejected", !.calls[i].error = err]

\* The rest of connectAsync call i once its handshake has settled.
ConnectResume(i, ok) ==
  LET wired == Wire(Cur, i)
      done == [wired EXCEPT !.calls[i].state = "resolved"]
      err == IF hasWebSocket THEN SocketError ELSE NodeConnectError
      failed == [Cur EXCEPT !.calls[i].state = "rejected", !.calls[i].error = err]
      surfaced == IF calls[i].origin = "handler"
                    THEN [failed EXCEPT !.errors = @ \cup {ReconnectError}]
                    ELSE failed
  IN IF ok THEN done ELSE surfaced

HandshakeSettles ==
  /\ kind = "client"
  /\ \E i \in InFlight(calls), ok \in BOOLEAN : Install(ConnectResume(i, ok))
  /\ UNCHANGED <<config, promptVars, closedSignal, lastEvent, stopped>>

\* One disconnect event seen from outside: what the handlers did.
Event(s, cause) ==
  [handlerCalls |-> s.handlerCalls, reconnects |-> s.reconnects, cause |-> cause]

\* A variant of disconnect() that forgets the receiver.
DisconnectSenderOnly(s) == SenderDisconnect(s)

\* WebSocketClient.disconnect / WebSocketServer.disconnect:
\* this._sender.disconnect(..); this._receiver.disconnect(..)
DisconnectBoth(s) == ReceiverDisconnect(SenderDisconnect(s))

disconnect ==
  LET after == DisconnectBoth(Cur)
  IN /\ Install(after)
     /\ lastEvent' = IF sender # 0 \/ receiver # 0 THEN Event(after, "disconnect")
                                                   ELSE lastEvent
     /\ stopped' = IF InFlight(calls) = {} THEN "clean" ELSE "racing"
     /\ UNCHANGED <<config, promptVars, closedSignal>>

\* The socket of the current connection closes: sender and receiver both
\* observe it, each in its own callback, and each goes through its disconnect.
SocketClose ==
  LET first == SenderDisconnect(Cur)
      after == ReceiverDisconnect([first EXCEPT !.thrown = FALSE])
  IN /\ sender # 0 \/ receiver # 0
     /\ Install(after)
     /\ lastEvent' = Event(after, "close")
     /\ UNCHANGED <<config, promptVars, closedSignal, stopped>>

\* A startAsync that hands out its promise without keeping the resolver.
startAsyncNoSignal ==
  /\ kind = "server"
  /\ Len(starts) < MaxStarts
  /\ Install([Wire(Cur, 1) EXCEPT !.starts =
                Append(@, [state |-> "pending", live |-> TRUE, overlapped |-> FALSE])])
  /\ stopped' = "no"
  /\ UNCHANGED <<config, promptVars, closedSignal, lastEvent>>

\* WebSocketServer.startAsync: connect both, then hand out a new promise whose
\* resolver replaces _closedSignal.  A promise is marked overlapped when the
\* call finds an earlier promise still pending, and so is that earlier one.
startAsync ==
  LET n == Len(starts) + 1
      older == {i \in DOMAIN starts : starts[i].state = "pending"}
      marked == [i \in DOMAIN starts |->
                   IF i \in older THEN [starts[i] EXCEPT !.overlapped = TRUE]
                                  ELSE starts[i]]
      wired == Wire(Cur, 1)
  IN /\ kind = "server"
     /\ Len(starts) < MaxStarts
     /\ Install([wired EXCEPT !.starts =
                   Append(marked, [state |-> "pending", live |-> TRUE,
                                   overlapped |-> older # {}])])
     /\ closedSignal' = n
     /\ stopped' = "no"
     /\ UNCHANGED <<config, promptVars, lastEvent>>

\* A sendAsync that loses the adapter's promise: the caller waits on a
\* promise nothing will settle.
SendRequestLost(s, r) == [s EXCEPT !.outcome[r] = "pending"]

\* sendAsync: return this._protocolAdapter.sendRequestAsync(request, token)
SendRequest(s, r) == SendRequestAsync(s, r)

sendAsync ==
  /\ \E r \in RequestIds :
       /\ outcome[r] = "unsent"
       /\ \A q \in RequestIds : q < r => outcome[q] # "unsent"
       /\ Install(SendRequest(Cur, r))
  /\ UNCHANGED <<config, promptVars, closedSignal, lastEvent, stopped>>

\* The receiver dispatches the response payload matching pending request r.
ReceiveResponse(r) ==
  /\ r \in pending
  /\ receiver # 0
  /\ Install(Complete(Cur, r, "response"))
  /\ UNCHANGED <<config, promptVars, closedSignal, lastEvent, stopped>>

Responses == \E r \in RequestIds : ReceiveResponse(r)

\* The caller's cancellation token fires while request r is pending.
Cancel ==
  /\ \E r \in pending : Install(Complete(Cur, r, "cancelled"))
  /\ UNCHANGED <<config, promptVars, closedSignal, lastEvent, stopped>>

Next ==
  \/ connectAsync
  \/ HandshakeSettles
  \/ disconnect
  \/ SocketClose
  \/ startAsync
  \/ sendAsync
  \/ Responses
  \/ Cancel

Spec == Init /\ [][Next]_vars

\* ------------------------------------------------- OAuthPrompt: actions
PromptInit ==
  /\ kind = "prompt"
  /\ autoReconnect = FALSE
  /\ hasWebSocket = FALSE
  /\ sender = 0
  /\ receiver = 0
  /\ calls = <<>>
  /\ starts = <<>>
  /\ closedSignal = 0
  /\ outcome = [r \in RequestIds |-> "unsent"]
  /\ pending = {}
  /\ resolutions = [r \in RequestIds |-> 0]
  /\ errors = {}
  /\ lastEvent = [handlerCalls |-> 0, reconnects |-> 0, cause |-> "none"]
  /\ stopped = "no"
  /\ settings \in Timeouts
  /\ now = 0
  /\ ticks = 0
  /\ dialog = "idle"
  /\ state = [expires |-> 0, retryPrompt |-> FALSE]
  /\ result = "none"
  /\ turn = NoTurn

\* OAuthPrompt.dialogBegin: the state is stored, then getUserToken answers
\* with `output` and the dialog ends with it or the sign-in card is sent.
dialogBegin ==
  /\ dialog # "active"
  /\ \E options \in PromptOptions, output \in TokenOutputs :
       /\ state' = BeginState(now, options)
       /\ dialog' = IF output # "undefined" THEN "ended" ELSE "active"
       /\ result' = IF output # "undefined" THEN output ELSE "none"
       /\ turn' = [op |-> "begin", type |-> "none", prompt |-> options.prompt,
                   output |-> output, at |-> now,
                   sent |-> BeginSends(output, options),
                   ended |-> output # "undefined"]
  /\ UNCHANGED <<config, endpointVars, settings, now, ticks>>

\* OAuthPrompt.dialogContinue for an incoming activity of type `type` in which
\* prompt.recognize finds `output`.
dialogContinue ==
  /\ dialog = "active"
  /\ \E type \in ActivityTypes, output \in TokenOutputs :
       LET ends == ContinueEnds(output, type, now, state.expires)
       IN /\ dialog' = IF ends THEN "ended" ELSE "active"
          /\ result' = IF ends THEN output ELSE result
          /\ turn' = [op |-> "continue", type |-> type, prompt |-> "undefined",
                      output |-> output, at |-> now,
                      sent |-> ContinueSends(output, type, now, state),
                      ended |-> ends]
  /\ UNCHANGED <<config, endpointVars, settings, now, ticks, state>>

\* The wall clock advances: by a millisecond, or by one of the timeouts.
Tick ==
  /\ ticks < MaxTicks
  /\ \E d \in {1, CustomTimeout, DefaultTimeout} : now' = now + d
  /\ ticks' = ticks + 1
  /\ UNCHANGED <<config, endpointVars, settings, dialog, state, result, turn>>

PromptNext ==
  \/ dialogBegin
  \/ dialogContinue
  \/ Tick

PromptSpec == PromptInit /\ [][PromptNext]_vars

\* The peer answers every request it has received as long as the connection
\* lasts, and the receive loop dispatches what arrives.
FairSpec == Spec /\ \A r \in RequestIds : WF_vars(ReceiveResponse(r))

TypeOK ==
  /\ kind \in {"client", "server", "prompt"}
  /\ autoReconnect \in BOOLEAN
  /\ hasWebSocket \in BOOLEAN
  /\ sender \in 0..MaxConnects
  /\ receiver \in 0..MaxConnects
  /\ Len(calls) <= MaxConnects
  /\ Len(starts) <= MaxStarts
  /\ closedSignal \in 0..MaxStarts
  /\ outcome \in [RequestIds -> {"unsent", "refused", "pending"} \cup Final]
  /\ pending \subseteq RequestIds
  /\ errors \subseteq {ReconnectError, TypeError}
  /\ stopped \in {"no", "clean", "racing"}
  /\ lastEvent.cause \in {"none", "close", "disconnect"}
  /\ settings \in Timeouts
  /\ now \in Nat
  /\ ticks \in 0..MaxTicks
  /\ dialog \in {"idle", "active", "ended"}
  /\ state.expires \in Nat
  /\ result \in {"none"} \cup TokenOutputs

\* ================================================================ claims

\* C1: with autoReconnect enabled, every disconnect event of a connected
\* client (a socket close observed by its sender and receiver) triggers
\* exactly one connectAsync call from onConnectionDisconnected.
C1_ExactlyOneReconnect ==
  (kind = "client" /\ autoReconnect /\ lastEvent.cause = "close")
    => lastEvent.reconnects = 1

C3_DisconnectFailsPending ==
  /\ [][(sender # 0 /\ sender' = 0)
          => (pending' = {} /\ \A r \in pending :
                                outcome'[r] = "disconnected" /\ resolutions'[r] = 1)]_vars
  /\ [](\A r \in RequestIds : resolutions[r] <= 1)

C3_Witness ==
  /\ lastEvent.handlerCalls = 2
  /\ pending = {}
  /\ \E r \in RequestIds : outcome[r] = "disconnected" /\ resolutions[r] = 1

\* C4: the lifecycle handler is reached at most once per disconnect event.
C4_HandlerAtMostOnce ==
  lastEvent.cause # "none" => lastEvent.handlerCalls <= 1

\* A connectAsync call issued by the user completes its handshake in this step.
UserConnectCompletes ==
  \E i \in DOMAIN calls :
    /\ calls[i].origin = "user"
    /\ calls[i].state = "pending"
    /\ calls'[i].state = "resolved"
    /\ sender' = i
    /\ receiver' = i

C6_PendingWhileListening ==
  \A i \in DOMAIN calls :
    (sender = i /\ receiver = i) => calls[i].state = "pending"

\* C7 as stated: every startAsync promise, of every call, is pending exactly
\* until the first disconnect notification after the call, and then resolved.
C7_EveryStartPromise ==
  \A i \in DOMAIN starts :
    IF starts[i].live THEN starts[i].state = "pending" ELSE starts[i].state = "close"

\* C7 amended: that holds for a startAsync promise as long as no other
\* startAsync promise of the server is pending at the same time; a promise
\* whose resolver was replaced by a later call stays pending for good.
C7_StartPromiseUnlessOverlapped ==
  /\ [](\A i \in DOMAIN starts :
          ~starts[i].overlapped
            => IF starts[i].live THEN starts[i].state = "pending" /\ sender # 0
                                 ELSE starts[i].state = "close")
  /\ [][\A i \in DOMAIN starts :
          (starts[i].state = "pending" /\ closedSignal # i)
            => starts'[i].state = "pending"]_vars

C7_Witness ==
  \E i \in DOMAIN starts :
    ~starts[i].overlapped /\ ~starts[i].live /\ starts[i].state = "close"

C9_ConnectedTogether ==
  sender = receiver

C9_Witness ==
  /\ lastEvent.cause = "disconnect" /\ lastEvent.handlerCalls = 2
  /\ sender # 0 /\ receiver = sender

C11_DefaultFifteenMinutes ==
  (turn.op = "begin" /\ ~settings.isNumber)
    => state.expires = turn.at + FifteenMinutes

\* C12: dialogBegin with a token from getUserToken ends the dialog with that
\* token and sends nothing; without one the dialog stays active and the
\* OAuthCard is sent, preceded by the supplied prompt exactly when
\* options.prompt is a string.
C12_BeginEndsOrPrompts ==
  turn.op = "begin"
    => IF turn.output # "undefined"
         THEN dialog = "ended" /\ result = turn.output /\ turn.sent = <<>>
         ELSE /\ dialog = "active"
              /\ result = "none"
              /\ turn.sent[Len(turn.sent)] = "OAuthCard"
              /\ Len(turn.sent) = (IF turn.prompt = "string" THEN 2 ELSE 1)
              /\ turn.prompt = "string" => turn.sent[1] = "prompt"

C12_Witness ==
  /\ turn.op = "begin" /\ turn.output = "undefined" /\ turn.prompt = "string"
  /\ dialog = "active" /\ turn.sent = <<"prompt", "OAuthCard">>

\* C13: dialogContinue ends the dialog exactly when a token was recognized or
\* the activity is a message arriving strictly after state.expires; the
\* result is the token when there is one and undefined on timeout; an event
\* or invoke activity without a token never ends the dialog.
C13_ContinueEndsOnTokenOrTimeout ==
  turn.op = "continue"
    => /\ turn.ended <=> \/ turn.output = "token"
                         \/ (turn.type = "message" /\ turn.at > state.expires)
       /\ turn.ended => (dialog = "ended" /\ result = turn.output)
       /\ ~turn.ended => dialog = "active"
       /\ (turn.type # "message" /\ turn.output = "undefined") => ~turn.ended

C13_Witness ==
  /\ turn.op = "continue" /\ turn.type = "message" /\ turn.output = "undefined"
  /\ turn.at = state.expires + 1
  /\ dialog = "ended" /\ result = "undefined"

\* C14: when the handshake of connectAsync fails the call rejects and leaves
\* the client as it was: sender and receiver are not connected by it; in the
\* Node branch the rejection carries the Node connect error.
C14_FailedHandshakeChangesNothing ==
  /\ [][\A i \in DOMAIN calls :
          (calls[i].state = "pending" /\ calls'[i].state = "rejected")
            => /\ sender' = sender /\ receiver' = receiver
               /\ sender' # i /\ receiver' # i
               /\ ~hasWebSocket => calls'[i].error = NodeConnectError]_vars
  /\ [](\A i \in DOMAIN calls :
          (calls[i].state = "rejected" /\ ~hasWebSocket)
            => calls[i].error = NodeConnectError)

C14_Witness ==
  /\ kind = "client" /\ ~hasWebSocket
  /\ sender = 0 /\ receiver = 0
  /\ \E i \in DOMAIN calls :
       calls[i].state = "rejected" /\ calls[i].error = NodeConnectError

====
